---- MODULE Spec2Model ----
(***************************************************************************)
(* Model of dingo/gw/waveform_dataset.py: SVDBasis, WaveformDataset and    *)
(* generate_and_save_reduced_basis, and of train_stages of                 *)
(* dingo/gw/training/train_pipeline.py.                                    *)
(*                                                                         *)
(* Arrays are numpy-like records: a dtype, a shape, a memory-order flag    *)
(* and the flat buffer in memory order.  Complex numbers are pairs         *)
(* <<re, im>> of integers.  Indices in the model are 1-based; row i of the *)
(* model is row i-1 of the program.                                        *)
(***************************************************************************)
EXTENDS Integers, Sequences, FiniteSets, TLC

\* ------------------------------------------------------------------ bounds
\* largest number of training samples (rows of training_data)
MaxSamples == 2
\* largest full dimension (columns of training_data, domain length)
MaxDim == 2
\* largest requested number of basis elements
MaxN == 2
\* largest requested training-set size N of the reduced-basis builder
MaxRows == 3
\* largest batch size of the builder's data loader
MaxBatch == 3
\* largest number of samples the builder's source dataset holds
MaxSource == 4
\* largest number of training stages in the settings
MaxStages == 3
\* largest number of epochs of one stage
MaxEpochs == 2

Min(a, b) == IF a < b THEN a ELSE b
Max(a, b) == IF a > b THEN a ELSE b

\* ------------------------------------------------------- complex numbers
CAdd(a, b) == <<a[1] + b[1], a[2] + b[2]>>
CMul(a, b) == <<a[1] * b[1] - a[2] * b[2], a[1] * b[2] + a[2] * b[1]>>
CConj(a) == <<a[1], 0 - a[2]>>
CZero == <<0, 0>>
\* the value numpy gives None when it is cast to a complex dtype (nan+nanj);
\* no arithmetic is ever done on it in the model
CNaN == <<999999, 999999>>
\* 1, i, -1, -i
PhaseTab == << <<1, 0>>, <<0, 1>>, <<-1, 0>>, <<0, -1>> >>
Phase(k) == PhaseTab[(k % 4) + 1]

\* ------------------------------------------------------------------ arrays
\* Python's None, in the shape of an array record so that it can be compared
None == [kind |-> "None", dtype |-> "", shape |-> <<>>, forder |-> FALSE, data |-> <<>>]
IsNone(A) == A.kind = "None"

\* a 2-D array with the elements f[<<i, j>>], laid out in C or Fortran order
Arr2(dt, r, c, fo, f) ==
    [kind |-> "ndarray", dtype |-> dt, shape |-> <<r, c>>, forder |-> fo,
     data |-> [k \in 1..(r * c) |->
                 IF fo THEN f[<<((k - 1) % r) + 1, ((k - 1) \div r) + 1>>]
                       ELSE f[<<((k - 1) \div c) + 1, ((k - 1) % c) + 1>>]]]
\* a 1-D array with the elements f[i]
Arr1(dt, len, f) ==
    [kind |-> "ndarray", dtype |-> dt, shape |-> <<len>>, forder |-> FALSE,
     data |-> [k \in 1..len |-> f[k]]]
\* np.array(None, dtype=dt): a 0-d array holding nan
Arr0NaN(dt) ==
    [kind |-> "ndarray", dtype |-> dt, shape |-> <<>>, forder |-> FALSE,
     data |-> <<CNaN>>]

NDim(A) == Len(A.shape)
\* element (i, j) of a 2-D array
At(A, i, j) ==
    IF A.forder THEN A.data[(j - 1) * A.shape[1] + i]
                ELSE A.data[(i - 1) * A.shape[2] + j]
\* the elements of a 2-D array as a function of <<i, j>>
Elems(A) == [ij \in (1..A.shape[1]) \X (1..A.shape[2]) |-> At(A, ij[1], ij[2])]
\* A.T : a view, the same buffer read in the other order
Transpose(A) ==
    IF NDim(A) = 2
    THEN [A EXCEPT !.shape = <<A.shape[2], A.shape[1]>>, !.forder = ~A.forder]
    ELSE A
\* A.conj()
Conj(A) == [A EXCEPT !.data = [k \in DOMAIN A.data |-> CConj(A.data[k])]]
\* A.astype(dt) / np.array(A, dtype=dt): the values of the model are small
\* integers, which both complex precisions hold exactly; the dtype changes
AsType(A, dt) == [A EXCEPT !.dtype = dt]
\* A[:n, :]
RowsUpTo(A, n) ==
    LET r == Min(n, A.shape[1]) IN Arr2(A.dtype, r, A.shape[2], A.forder, Elems(A))
\* A[:, :n]
ColsUpTo(A, n) ==
    LET c == Min(n, A.shape[2]) IN Arr2(A.dtype, A.shape[1], c, A.forder, Elems(A))
\* A[..., lo:hi] with 0-based lo, exclusive hi, clipped as Python slices are
ColsSlice(A, lo, hi) ==
    LET h == Min(hi, A.shape[2])
        c == Max(h - lo, 0)
    IN Arr2(A.dtype, A.shape[1], c, A.forder,
            [ij \in (1..A.shape[1]) \X (1..c) |-> At(A, ij[1], ij[2] + lo)])
\* row i of a 2-D array, as a 1-D array
Row(A, i) == Arr1(A.dtype, A.shape[2], [j \in 1..A.shape[2] |-> At(A, i, j)])

\* numpy's result type of an operation on two complex arrays
ResultType(a, b) == IF a = "complex128" \/ b = "complex128" THEN "complex128" ELSE "complex64"

RECURSIVE DotSum(_, _, _)
\* sum over k = 1..n of f[k] * g[k]
DotSum(f, g, n) == IF n = 0 THEN CZero ELSE CAdd(DotSum(f, g, n - 1), CMul(f[n], g[n]))

\* whether x @ B is defined: x is 1-D or 2-D, B is 2-D, inner dimensions agree
MatMulOk(x, B) ==
    /\ ~IsNone(x) /\ ~IsNone(B)
    /\ NDim(x) \in {1, 2} /\ NDim(B) = 2
    /\ x.shape[NDim(x)] = B.shape[1]
\* x @ B
MatMul(x, B) ==
    LET inner == B.shape[1]
        c == B.shape[2]
        dt == ResultType(x.dtype, B.dtype)
    IN IF NDim(x) = 1
       THEN Arr1(dt, c, [j \in 1..c |->
                DotSum([k \in 1..inner |-> x.data[k]], [k \in 1..inner |-> At(B, k, j)], inner)])
       ELSE Arr2(dt, x.shape[1], c, FALSE,
                [ij \in (1..x.shape[1]) \X (1..c) |->
                   DotSum([k \in 1..inner |-> At(x, ij[1], k)],
                          [k \in 1..inner |-> At(B, k, ij[2])], inner)])

\* ------------------------------------------------------------------- state
VARIABLES
    \* SVDBasis: self.V, self.Vh, self.n, self.s
    V, Vh, n, s,
    \* the .npy file that to_file writes and from_file reads
    npy,
    \* the last SVDBasis call: operation, method or vector length, exception raised
    svd_call,
    \* what the last conversion call returned
    svd_ret,
    \* the HDF5 file the WaveformDataset is constructed from
    h5,
    \* WaveformDataset: where its construction stands
    wfd_pc,
    \* WaveformDataset: self.single_precision, self._hc, self._hp, self._Vh
    single_precision, wfd_hc, wfd_hp, wfd_Vh,
    \* WaveformDataset: self.domain, self.is_truncated, self.transform
    domain, is_truncated, transform,
    \* the last WaveformDataset call and what __getitem__ returned
    wfd_call, wfd_ret,
    \* generate_and_save_reduced_basis: its arguments, locals and position
    rb,
    \* generate_and_save_reduced_basis: rb_train_data, one buffer per channel
    rb_train_data,
    \* the files the builder has written
    rb_files,
    \* the posterior model handed to train_stages: pm.epoch and the stage whose
    \* settings its optimizer and scheduler were built from
    pm,
    \* train_stages: its settings, locals and position
    ts

svd_vars == <<V, Vh, n, s, npy, svd_call, svd_ret>>
wfd_vars == <<h5, wfd_pc, single_precision, wfd_hc, wfd_hp, wfd_Vh, domain, is_truncated,
              transform, wfd_call, wfd_ret>>
\* wfd_vars without the transform field, which the builder swaps
wfd_rest == <<h5, wfd_pc, single_precision, wfd_hc, wfd_hp, wfd_Vh, domain, is_truncated,
              wfd_call, wfd_ret>>
rb_vars == <<rb, rb_train_data, rb_files>>
train_vars == <<pm, ts>>

\* an int attribute that may hold None
NoneInt == [kind |-> "None", v |-> 0]
SomeInt(v) == [kind |-> "int", v |-> v]
\* self.s before generate_basis has run: the attribute does not exist
Unset == [kind |-> "unset", data |-> <<>>]
\* a 1-D real array of singular values
Reals(q) == [kind |-> "ndarray", data |-> q]

\* ------------------------------------------------------------ training data
\* A training matrix of shape S x D, given by its descriptor td.  Row i (for
\* i up to k = min(S, D)) has one non-zero entry, of modulus k + 1 - i and of
\* phase i^i (i, -1, -i, 1, ...), in column ((i - 1 + r) mod D) + 1; the other rows are
\* zero.  Its singular value decomposition is known exactly.
TrainingSet ==
    {td \in [S : 1..MaxSamples, D : 1..MaxDim, r : 0..(MaxDim - 1)] : td.r < td.D}
AvailableRank(td) == Min(td.S, td.D)
SingularValue(td, i) == AvailableRank(td) + 1 - i
BasisCol(td, i) == ((i - 1 + td.r) % td.D) + 1
TrainingMatrix(td) ==
    Arr2("complex128", td.S, td.D, FALSE,
         [ij \in (1..td.S) \X (1..td.D) |->
            IF ij[1] <= AvailableRank(td) /\ ij[2] = BasisCol(td, ij[1])
            THEN CMul(<<SingularValue(td, ij[1]), 0>>, Phase(ij[1]))
            ELSE CZero])

\* scipy.linalg.svd(training_data, full_matrices=False): s of length
\* k = min(S, D), descending, and Vh of shape k x D with orthonormal rows
svd_s(td) == [i \in 1..AvailableRank(td) |-> SingularValue(td, i)]
svd_Vh(td) ==
    Arr2("complex128", AvailableRank(td), td.D, FALSE,
         [ij \in (1..AvailableRank(td)) \X (1..td.D) |->
            IF ij[2] = BasisCol(td, ij[1]) THEN Phase(ij[1]) ELSE CZero])
\* U of shape S x k: the first k columns of the identity
svd_U(td) ==
    Arr2("complex128", td.S, AvailableRank(td), FALSE,
         [ij \in (1..td.S) \X (1..AvailableRank(td)) |->
            IF ij[1] = ij[2] THEN <<1, 0>> ELSE CZero])

\* sklearn's randomized_svd(training_data, n_components, random_state=0):
\* the leading n_components singular triplets; it cannot return more than
\* the min(S, D) the matrix has
randomized_svd_s(td, ncomp) == SubSeq(svd_s(td), 1, Min(ncomp, AvailableRank(td)))
randomized_svd_Vh(td, ncomp) == RowsUpTo(svd_Vh(td), ncomp)

\* --------------------------------------------------------------- SVDBasis
Methods == {"random", "scipy", "full"}

\* SVDBasis.__init__
NewBasis == [V |-> None, Vh |-> None, n |-> NoneInt, s |-> Unset]

\* the 'random' branch of generate_basis
GenerateRandom(b, td, nreq) ==
    LET n1 == IF nreq = 0 THEN Min(td.S, td.D) ELSE nreq
        vh == AsType(randomized_svd_Vh(td, n1), "complex64")
    IN [V |-> Conj(Transpose(vh)), Vh |-> vh, n |-> SomeInt(n1),
        s |-> Reals(randomized_svd_s(td, n1))]

\* the 'scipy' branch of generate_basis
GenerateScipy(b, td, nreq) ==
    LET vh == svd_Vh(td)
        v == Conj(Transpose(vh))
        \* len(V): the number of rows of V, the full dimension
        all == (nreq = 0) \/ (nreq > v.shape[1])
        newV == IF all THEN v ELSE ColsUpTo(v, nreq)
        newVh == IF all THEN vh ELSE RowsUpTo(vh, nreq)
    IN [V |-> newV, Vh |-> newVh, n |-> SomeInt(newVh.shape[1]),
        s |-> Reals(svd_s(td))]

\* a faulty generate_basis: a method it does not know runs the 'random' branch
\* before the error is raised
GenerateBasisBad(b, td, nreq, method) ==
    IF method = "scipy"
    THEN [err |-> "", b |-> GenerateScipy(b, td, nreq)]
    ELSE [err |-> IF method = "random" THEN "" ELSE "ValueError",
          b |-> GenerateRandom(b, td, nreq)]
\* generate_basis: the exception raised ("" for none) and the basis after it
generate_basis(b, td, nreq, method) ==
    IF method = "random"
    THEN [err |-> "", b |-> GenerateRandom(b, td, nreq)]
    ELSE IF method = "scipy"
    THEN [err |-> "", b |-> GenerateScipy(b, td, nreq)]
    ELSE [err |-> "ValueError", b |-> b]

\* no file at the path
NoFile == [exists |-> FALSE, descr |-> "", fortran_order |-> FALSE, shape |-> <<>>,
           payload |-> <<>>]
\* np.save: the header and the buffer, written in the array's own order when
\* it is Fortran-contiguous and not C-contiguous, in C order otherwise
np_save(A) ==
    LET fo == A.forder /\ A.shape[1] > 1 /\ A.shape[2] > 1
    IN [exists |-> TRUE, descr |-> A.dtype, fortran_order |-> fo, shape |-> A.shape,
        payload |-> IF fo THEN A.data
                    ELSE Arr2(A.dtype, A.shape[1], A.shape[2], FALSE, Elems(A)).data]
\* np.load: the array the header describes over the stored buffer
np_load(f) ==
    [kind |-> "ndarray", dtype |-> f.descr, shape |-> f.shape,
     forder |-> f.fortran_order, data |-> f.payload]

\* a basis file that another run left behind: a 2 x 2 complex64 matrix in C order
ForeignFile ==
    [exists |-> TRUE, descr |-> "complex64", fortran_order |-> FALSE, shape |-> <<2, 2>>,
     payload |-> << <<1, 1>>, <<2, 0>>, <<0, 3>>, <<4, -1>> >>]

\* a faulty from_file: Vh = V.T, without the conjugation
FromFileNoConj(b, f) ==
    LET v == np_load(f)
    IN [b EXCEPT !.V = v, !.Vh = Transpose(v), !.n = SomeInt(v.shape[2])]
\* from_file: the basis after loading V from file f
from_file(b, f) ==
    LET v == np_load(f)
    IN [b EXCEPT !.V = v, !.Vh = Conj(Transpose(v)), !.n = SomeInt(v.shape[2])]

\* to_file: the file after the call
to_file(b, f) == IF ~IsNone(b.V) THEN np_save(b.V) ELSE f

Basis == [V |-> V, Vh |-> Vh, n |-> n, s |-> s]
SetBasis(b) == /\ V' = b.V
               /\ Vh' = b.Vh
               /\ n' = b.n
               /\ s' = b.s
\* the last call observed on the basis object: its name, its arguments, the
\* exception it raised; origin names what filled the basis the call acted on
\* (a generate_basis method, or "file"), chained tells that the argument of a
\* conversion was the value the previous conversion returned
SvdCall(op, method, len, err) ==
    [op |-> op, method |-> method, len |-> len, err |-> err,
     origin |-> "", chained |-> FALSE]

\* the vectors handed to the conversion operations: length len, entry k is k + (k+1)i
Vector(len) == Arr1("complex128", len, [k \in 1..len |-> <<k, k + 1>>])

\* -------------------------------------------------------- WaveformDataset
Range(q) == {q[k] : k \in DOMAIN q}

\* the orders in which the container may list the keys of the
\* waveform_polarizations group, and the keys it may hold
KeyListings ==
    { <<"h_cross", "h_plus">>, <<"h_plus", "h_cross">>, <<"h_cross">>, <<"h_plus">>,
      <<"h_cross", "h_plus", "h_x">> }

\* dataset files: S samples with stored polarization vectors of length L, an
\* optional rb_matrix_V of shape D x nV, and the domain settings
H5Files ==
    {f \in [keys : KeyListings, S : 1..MaxSamples, L : 1..MaxDim, hasV : BOOLEAN,
            D : 1..MaxDim, nV : 1..MaxDim, f_min : 0..(MaxDim - 1), f_max : 0..(MaxDim - 1)] :
        /\ f.f_min <= f.f_max
        /\ ~f.hasV => (f.D = 1 /\ f.nV = 1)}
\* fp['waveform_polarizations']['h_plus'][:], ['h_cross'][:] and fp['rb_matrix_V'][:]
FileHPlus(f) ==
    Arr2("complex128", f.S, f.L, FALSE, [ij \in (1..f.S) \X (1..f.L) |-> <<10 * ij[1] + ij[2], 1>>])
FileHCross(f) ==
    Arr2("complex128", f.S, f.L, FALSE, [ij \in (1..f.S) \X (1..f.L) |-> <<10 * ij[1] + ij[2], -1>>])
FileV(f) ==
    Arr2("complex128", f.D, f.nV, FALSE, [ij \in (1..f.D) \X (1..f.nV) |-> <<ij[1], ij[2]>>])

\* the domain: the dataset covers the bins 0..f_max, the truncated range is
\* f_min..f_max (in units of the bin width)
NoDomain == [kind |-> "unset", f_min |-> 0, f_max |-> 0]
build_domain(f) == [kind |-> "domain", f_min |-> f.f_min, f_max |-> f.f_max]
DomainLen(d) == d.f_max + 1
set_new_range(d, lo, hi) == [d EXCEPT !.f_min = lo, !.f_max = hi]
truncate_data(d, A, flexible) == ColsSlice(A, d.f_min, d.f_max + 1)

\* the dataset object as a record of its fields
Dataset == [transform |-> transform, single_precision |-> single_precision,
            hc |-> wfd_hc, hp |-> wfd_hp, Vh |-> wfd_Vh, domain |-> domain,
            is_truncated |-> is_truncated]

\* np.array(x, dtype=dtype) at the end of load: None becomes a 0-d array
np_array(x, dt) == IF IsNone(x) THEN Arr0NaN(dt) ELSE AsType(x, dt)

\* a faulty load: rb_matrix_V itself becomes the compression matrix
LoadNoTranspose(w, f) ==
    LET dt == IF w.single_precision THEN "complex64" ELSE "complex128"
    IN IF f.keys # <<"h_cross", "h_plus">>
       THEN [err |-> "AssertionError", w |-> w]
       ELSE [err |-> "",
             w |-> [w EXCEPT !.hc = np_array(FileHCross(f), dt),
                             !.hp = np_array(FileHPlus(f), dt),
                             !.Vh = np_array(IF f.hasV THEN FileV(f) ELSE w.Vh, dt),
                             !.domain = build_domain(f),
                             !.is_truncated = FALSE]]
\* load: the exception raised ("" for none) and the dataset after it
load(w, f) ==
    LET dt == IF w.single_precision THEN "complex64" ELSE "complex128"
    IN IF f.keys # <<"h_cross", "h_plus">>
       THEN [err |-> "AssertionError", w |-> w]
       ELSE [err |-> "",
             w |-> [w EXCEPT !.hc = np_array(FileHCross(f), dt),
                             !.hp = np_array(FileHPlus(f), dt),
                             !.Vh = np_array(IF f.hasV THEN Conj(Transpose(FileV(f)))
                                                       ELSE w.Vh, dt),
                             !.domain = build_domain(f),
                             !.is_truncated = FALSE]]

\* what __getitem__ returns: the two polarizations, and the transform that
\* was applied to the record ("None" when none is attached)
NoRet == [h_plus |-> None, h_cross |-> None, transform |-> "None"]
\* __getitem__(idx), idx counted from 0: the exception raised and the record
getitem(w, idx) ==
    IF idx >= w.hp.shape[1] THEN [err |-> "IndexError", ret |-> NoRet]
    ELSE LET hc == Row(w.hc, idx + 1)
             hp == Row(w.hp, idx + 1)
         IN IF ~IsNone(w.Vh)
            THEN IF MatMulOk(hp, w.Vh) /\ MatMulOk(hc, w.Vh)
                 THEN [err |-> "",
                       ret |-> [h_plus |-> MatMul(hp, w.Vh), h_cross |-> MatMul(hc, w.Vh),
                                transform |-> w.transform]]
                 ELSE [err |-> "ValueError", ret |-> NoRet]
            ELSE [err |-> "", ret |-> [h_plus |-> hp, h_cross |-> hc,
                                       transform |-> w.transform]]

\* new_range: absent, or the two endpoints
NoRange == [given |-> FALSE, lo |-> 0, hi |-> 0]
NewRange(lo, hi) == [given |-> TRUE, lo |-> lo, hi |-> hi]

\* a faulty truncate_dataset_domain: neither the flag nor the shape is tested
TruncateNoFlagCheck(w, nr) ==
    LET w1 == IF nr.given
              THEN [w EXCEPT !.domain = set_new_range(w.domain, nr.lo, nr.hi)] ELSE w
    IN IF NDim(w1.Vh) = 0 THEN [err |-> "IndexError", w |-> w1]
       ELSE [err |-> "",
             w |-> [w1 EXCEPT !.Vh = truncate_data(w1.domain, w1.Vh, nr.given),
                              !.is_truncated = TRUE]]
\* truncate_dataset_domain(new_range): the exception raised and the dataset after it
truncate_dataset_domain(w, nr) ==
    IF w.is_truncated THEN [err |-> "ValueError", w |-> w]
    ELSE LET len_domain_original == DomainLen(w.domain)
             w1 == IF nr.given
                   THEN [w EXCEPT !.domain = set_new_range(w.domain, nr.lo, nr.hi)]
                   ELSE w
         IN IF ~IsNone(w1.Vh)
            THEN IF NDim(w1.Vh) = 0 THEN [err |-> "IndexError", w |-> w1]
                 ELSE IF w1.Vh.shape[NDim(w1.Vh)] # len_domain_original
                 THEN [err |-> "AssertionError", w |-> w1]
                 ELSE [err |-> "",
                       w |-> [w1 EXCEPT !.Vh = truncate_data(w1.domain, w1.Vh, nr.given),
                                        !.is_truncated = TRUE]]
            ELSE [err |-> "NotImplementedError", w |-> w1]

SetDataset(w) == /\ wfd_hc' = w.hc
                 /\ wfd_hp' = w.hp
                 /\ wfd_Vh' = w.Vh
                 /\ domain' = w.domain
                 /\ is_truncated' = w.is_truncated
                 /\ transform' = w.transform
                 /\ single_precision' = w.single_precision
WfdCall(op, idx, nr, err) == [op |-> op, idx |-> idx, new_range |-> nr, err |-> err]

\* ----------------------------------------- generate_and_save_reduced_basis
\* a buffer row: the source sample it holds (-1: never written, whatever
\* np.empty found in memory) and how often it was written
EmptyRow == [val |-> -1, writes |-> 0]
Ifos == <<"H1", "L1">>

\* the function's arguments and locals before any call
RbNone ==
    [pc |-> "idle", N |-> 0, batch_size |-> 0, n_rb |-> 0, out_dir |-> "None",
     source |-> 0, M |-> 0, ifos |-> <<>>, transform_at_call |-> "None",
     wfd_transform_original |-> "None", idx |-> 0, consumed |-> 0, lower |-> 0, n |-> 0,
     err |-> "", raised_at |-> "", basis_n |-> 0, basis_rank |-> 0, V_paths |-> <<>>]

\* lines 297-306: swap the transform, probe sample 0 (wfd[0] raises IndexError
\* on a dataset without samples), allocate the buffers
rb_begin(st, tr, a) ==
    LET st1 == [RbNone EXCEPT !.N = a.N, !.batch_size = a.batch_size,
                              !.n_rb = a.n_rb, !.out_dir = a.out_dir, !.source = a.source,
                              !.M = a.M, !.ifos = a.ifos, !.transform_at_call = tr,
                              !.wfd_transform_original = tr]
    IN IF a.source = 0
       THEN [st1 EXCEPT !.pc = "raised", !.err = "IndexError", !.raised_at = "probe"]
       ELSE [st1 EXCEPT !.pc = "collect"]
rb_buffers(a) == [k \in Range(a.ifos) |-> [i \in 1..a.N |-> EmptyRow]]

\* buf[lower:lower+n] = batch[:n] for a batch that holds the source samples
\* first, first+1, ..., first+blen-1: the rows copied, or a broadcast of a
\* single row, or "error" when the shapes cannot be broadcast
SliceAssign(buf, lower, cnt, first, blen) ==
    LET N == Len(buf)
        tstart == Min(lower, N)
        tstop == Max(tstart, Min(lower + cnt, N))
        tlen == tstop - tstart
        slen == IF cnt >= 0 THEN Min(cnt, blen) ELSE Max(blen + cnt, 0)
    IN IF slen = tlen
       THEN [ok |-> TRUE,
             buf |-> [i \in 1..N |->
                        IF i > tstart /\ i <= tstop
                        THEN [val |-> first + (i - 1 - tstart), writes |-> buf[i].writes + 1]
                        ELSE buf[i]]]
       ELSE IF slen = 1
       THEN [ok |-> TRUE,
             buf |-> [i \in 1..N |->
                        IF i > tstart /\ i <= tstop
                        THEN [val |-> first, writes |-> buf[i].writes + 1]
                        ELSE buf[i]]]
       ELSE [ok |-> FALSE, buf |-> buf]

\* a faulty n: the batch size, not cut to the rows the buffer has left
BatchRowsUnclipped(batch_size, N, lower) == batch_size
\* the n of line 310
BatchRows(batch_size, N, lower) == Min(batch_size, N - lower)

\* lines 307-314: one pass of the loop; the loader yields batch idx, which
\* holds the source samples idx*batch_size up to the end of the source
rb_batch(st, data) ==
    LET lower == st.idx * st.batch_size
        blen == Min(st.batch_size, st.source - lower)
        cnt == BatchRows(st.batch_size, st.N, lower)
        res == [k \in DOMAIN data |-> SliceAssign(data[k], lower, cnt, lower, blen)]
    IN IF lower >= st.source
       THEN \* the loader is exhausted: the loop ends
            [st |-> [st EXCEPT !.pc = "generate"], data |-> data]
       ELSE IF \E k \in DOMAIN data : ~res[k].ok
       THEN [st |-> [st EXCEPT !.pc = "raised", !.err = "ValueError",
                               !.raised_at = "collect",
                               !.consumed = st.consumed + 1, !.lower = lower, !.n = cnt],
             data |-> data]
       ELSE [st |-> [st EXCEPT !.pc = IF lower + cnt = st.N THEN "generate" ELSE "collect",
                               !.idx = IF lower + cnt = st.N THEN st.idx ELSE st.idx + 1,
                               !.consumed = st.consumed + 1, !.lower = lower, !.n = cnt],
             data |-> [k \in DOMAIN data |-> res[k].buf]]

\* whether a buffer still holds rows that were never written
HasUnwritten(data) == \E k \in DOMAIN data : \E i \in DOMAIN data[k] : data[k][i].writes = 0

\* lines 321-325: one SVDBasis per channel by generate_basis(buffer, n_rb)
\* with the default method 'random'; finite tells whether the decomposition
\* found only finite numbers in the buffer
rb_generate(st, finite) ==
    IF ~finite THEN [st EXCEPT !.pc = "raised", !.err = "ValueError",
                               !.raised_at = "generate"]
    ELSE LET n1 == IF st.n_rb = 0 THEN Min(st.N, st.M) ELSE st.n_rb
         IN [st EXCEPT !.pc = "save", !.basis_n = n1,
                       !.basis_rank = Min(n1, Min(st.N, st.M))]

\* the basis and singular-value files of the channels
FileNames(ifos) == {"V_" \o ifos[k] : k \in DOMAIN ifos} \cup {"s_" \o ifos[k] : k \in DOMAIN ifos}
\* lines 330-337: save the matrices when out_dir is given
rb_save(st) ==
    IF st.out_dir = "None" THEN [st EXCEPT !.pc = "restore"]
    ELSE IF st.out_dir = "missing"
    THEN [st EXCEPT !.pc = "raised", !.err = "FileNotFoundError", !.raised_at = "save"]
    ELSE [st EXCEPT !.pc = "restore", !.V_paths = [k \in DOMAIN st.ifos |-> "V_" \o st.ifos[k]]]

\* a faulty step: an exception restores the original transform on its way out
TransformRestoredOnRaise(st, tr) ==
    IF st.pc = "raised" THEN st.wfd_transform_original ELSE tr
\* lines 299-337 run outside any try block: the transform of the dataset after
\* a step of the function that ended in state st, raising or not
TransformAfterStep(st, tr) == tr

\* a faulty return: the transform is left as it is
RestoredTransformKept(st, tr) == tr
\* lines 339-342: the transform the dataset holds when the function returns
RestoredTransform(st, tr) == st.wfd_transform_original

\* ------------------------------------------------------------ train_stages
RECURSIVE SumUpTo(_, _)
SumUpTo(q, k) == IF k = 0 THEN 0 ELSE q[k] + SumUpTo(q, k - 1)
\* np.cumsum of a list
cumsum(q) == [k \in 1..Len(q) |-> SumUpTo(q, k)]
\* np.searchsorted(a, v) of a sorted list: the number of entries below v
searchsorted(a, v) == Cardinality({k \in 1..Len(a) : a[k] < v})

\* the optimizer and scheduler that came with the model (loaded from a
\* checkpoint, or none yet); otherwise the index of the stage that built them
Loaded == -1

\* train_stages before it is called
TsNone ==
    [pc |-> "idle", epochs |-> <<>>, test_only |-> FALSE, end_epochs |-> <<>>,
     num_starting_stage |-> 0, n |-> 0, early_stopping |-> "None", entered |-> <<>>,
     saved |-> {}, ret |-> FALSE, err |-> ""]

\* lines 236-252: the stage list, end_epochs and the first stage to run
train_stages_begin(st, p) ==
    LET ends == cumsum(st.epochs)
        first == searchsorted(ends, p.epoch + 1)
    IN [st EXCEPT !.pc = "loop", !.end_epochs = ends, !.num_starting_stage = first,
                  !.n = first]

\* line 256: whether stage n (counted from 0) is entered at its first epoch
AtStageStart(st, p) == p.epoch = st.end_epochs[st.n + 1] - st.epochs[st.n + 1]

\* lines 191-197: the model after initialize_stage for stage n
initialize_stage(p, stage, resume) ==
    IF ~resume THEN [p EXCEPT !.optimizer = stage] ELSE p

\* lines 254-277: enter stage n; es is the stage's early_stopping setting
\* (absent, accepted by EarlyStopping, or rejected by it)
enter_stage(st, p, es) ==
    LET resume == ~AtStageStart(st, p)
        p1 == initialize_stage(p, st.n, resume)
        st1 == [st EXCEPT !.entered = Append(st.entered,
                              [stage |-> st.n, epoch |-> p.epoch, resume |-> resume,
                               optimizer |-> p1.optimizer]),
                          !.early_stopping = es]
    IN IF es = "invalid"
       THEN [pm |-> p1, st |-> [st1 EXCEPT !.pc = "raised", !.err = "TypeError"]]
       ELSE [pm |-> p1, st |-> [st1 EXCEPT !.pc = "train"]]

\* pm.train with runtime_limits.max_epochs_total = max_epochs_total: the
\* epochs at which it can return, each with what local_limits_exceeded says
\* afterwards.  It trains up to max_epochs_total, or stops before when a
\* local limit (time, epochs per run) is exceeded, or when early stopping
\* triggers after at least one epoch; with test_only it only evaluates.
pm_train(epoch, max_epochs_total, test_only, es) ==
    IF test_only THEN {[epoch |-> epoch, local_limits_exceeded |-> FALSE]}
    ELSE {[epoch |-> max_epochs_total, local_limits_exceeded |-> b] : b \in BOOLEAN}
         \cup {[epoch |-> e, local_limits_exceeded |-> TRUE] :
                    e \in epoch..(max_epochs_total - 1)}
         \cup (IF es = "valid"
               THEN {[epoch |-> e, local_limits_exceeded |-> FALSE] :
                         e \in (epoch + 1)..(max_epochs_total - 1)}
               ELSE {})

\* lines 289-299: after pm.train returned out for stage n
after_train(st, out) ==
    IF st.test_only THEN [st EXCEPT !.pc = "returned", !.ret = TRUE]
    ELSE LET st1 == IF out.epoch = st.end_epochs[st.n + 1]
                    THEN [st EXCEPT !.saved = st.saved \cup {st.n}] ELSE st
         IN IF out.local_limits_exceeded
            THEN [st1 EXCEPT !.pc = "after_loop"]
            ELSE [st1 EXCEPT !.pc = "loop", !.n = st.n + 1]

\* a faulty return value: pm.epoch compared with the end of the first stage
ReturnValueFirstStage(st, p) == p.epoch >= st.end_epochs[1]
\* lines 301-304: the value returned after the loop
ReturnValue(st, p) == p.epoch = st.end_epochs[Len(st.end_epochs)]

\* ------------------------------------------------------------ initial states
SvdInit ==
    /\ V = NewBasis.V
    /\ Vh = NewBasis.Vh
    /\ n = NewBasis.n
    /\ s = NewBasis.s
    /\ npy \in {NoFile, ForeignFile}
    /\ svd_call = SvdCall("__init__", "", 0, "")
    /\ svd_ret = None

\* WaveformDataset.__init__ up to its call of load
WfdInit ==
    /\ h5 \in H5Files
    /\ wfd_pc = "constructing"
    /\ transform \in {"None", "T_user"}
    /\ single_precision \in BOOLEAN
    /\ wfd_Vh = None
    /\ wfd_hc = None
    /\ wfd_hp = None
    /\ domain = NoDomain
    /\ is_truncated = FALSE
    /\ wfd_call = WfdCall("__init__", 0, NoRange, "")
    /\ wfd_ret = NoRet

\* no basis object is in use
SvdIdle ==
    /\ V = None /\ Vh = None /\ n = NoneInt /\ s = Unset /\ npy = NoFile
    /\ svd_call = SvdCall("", "", 0, "")
    /\ svd_ret = None
\* no dataset object is in use
WfdIdle ==
    /\ h5 = CHOOSE f \in H5Files : TRUE
    /\ wfd_pc = "unused"
    /\ transform = "None"
    /\ single_precision = TRUE
    /\ wfd_Vh = None /\ wfd_hc = None /\ wfd_hp = None
    /\ domain = NoDomain
    /\ is_truncated = FALSE
    /\ wfd_call = WfdCall("", 0, NoRange, "")
    /\ wfd_ret = NoRet

\* no reduced basis is being built
RbIdle ==
    /\ rb = RbNone
    /\ rb_train_data = [k \in {} |-> <<>>]
    /\ rb_files = {}

\* train_stages is not in use
TrainIdle ==
    /\ pm = [epoch |-> 0, optimizer |-> Loaded]
    /\ ts = TsNone

\* train_stages is called with 1..MaxStages stages, and a model that is new
\* (epoch 0) or was loaded from a checkpoint of this training
TrainInit ==
    \E L \in 1..MaxStages :
        \E ep \in [1..L -> 1..MaxEpochs], to \in BOOLEAN, e \in 0..(MaxStages * MaxEpochs) :
            /\ e <= SumUpTo(ep, L)
            /\ pm = [epoch |-> e, optimizer |-> Loaded]
            /\ ts = [TsNone EXCEPT !.pc = "called", !.epochs = ep, !.test_only = to]

\* a loaded dataset with any transform attached, and no call made yet
RbInit ==
    /\ RbIdle
    /\ TrainIdle
    /\ SvdIdle
    /\ h5 = CHOOSE f \in H5Files : TRUE
    /\ wfd_pc = "unused"
    /\ transform \in {"None", "T_user"}
    /\ single_precision = TRUE
    /\ wfd_Vh = None /\ wfd_hc = None /\ wfd_hp = None
    /\ domain = NoDomain
    /\ is_truncated = FALSE
    /\ wfd_call = WfdCall("", 0, NoRange, "")
    /\ wfd_ret = NoRet

\* ------------------------------------------------------ SVDBasis operations
GenerateBasis ==
    \E td \in TrainingSet, nreq \in 0..MaxN, method \in Methods :
        \E res \in {generate_basis(Basis, td, nreq, method)} :
           /\ SetBasis(res.b)
           /\ svd_call' = [SvdCall("generate_basis", method, 0, res.err) EXCEPT
                              !.origin = IF res.err = "" THEN method
                                         ELSE svd_call.origin]
           /\ svd_ret' = None
           /\ UNCHANGED <<npy, wfd_vars, rb_vars, train_vars>>

FromFile ==
    /\ IF npy.exists
       THEN /\ SetBasis(from_file(Basis, npy))
            /\ svd_call' = [SvdCall("from_file", "", 0, "") EXCEPT !.origin = "file"]
       ELSE /\ UNCHANGED <<V, Vh, n, s>>
            /\ svd_call' = [SvdCall("from_file", "", 0, "FileNotFoundError") EXCEPT
                               !.origin = svd_call.origin]
    /\ svd_ret' = None
    /\ UNCHANGED <<npy, wfd_vars, rb_vars, train_vars>>

ToFile ==
    /\ npy' = to_file(Basis, npy)
    /\ svd_call' = [SvdCall("to_file", "", 0, "") EXCEPT !.origin = svd_call.origin]
    /\ svd_ret' = None
    /\ UNCHANGED <<V, Vh, n, s, wfd_vars, rb_vars, train_vars>>

\* x @ M as a call: the exception raised and the value returned
Apply(x, M) ==
    IF IsNone(M) THEN [err |-> "TypeError", ret |-> None]
    ELSE IF ~MatMulOk(x, M) THEN [err |-> "ValueError", ret |-> None]
    ELSE [err |-> "", ret |-> MatMul(x, M)]

\* the arguments a conversion is called with: a fresh vector, or the value the
\* previous conversion of the other direction returned
ConversionInputs(previous) ==
    {[chained |-> FALSE, len |-> len, x |-> Vector(len)] : len \in 1..MaxDim}
    \cup (IF svd_call.op = previous /\ svd_call.err = "" /\ ~svd_call.chained
          THEN {[chained |-> TRUE, len |-> svd_call.len, x |-> svd_ret]}
          ELSE {})

FseriesToBasisCoefficientsNoConj(b, fseries) == Apply(fseries, Transpose(b.Vh))

basis_coefficients_to_fseries(b, coefficients) == Apply(coefficients, b.Vh)

fseries_to_basis_coefficients(b, fseries) == Apply(fseries, b.V)

BasisCoefficientsToFseries ==
    \E inp \in ConversionInputs("fseries_to_basis_coefficients") :
        \E res \in {basis_coefficients_to_fseries(Basis, inp.x)} :
           /\ svd_call' = [SvdCall("basis_coefficients_to_fseries", "", inp.len, res.err)
                              EXCEPT !.origin = svd_call.origin,
                                     !.chained = inp.chained]
           /\ svd_ret' = res.ret
           /\ UNCHANGED <<V, Vh, n, s, npy, wfd_vars, rb_vars, train_vars>>

FseriesToBasisCoefficients ==
    \E inp \in ConversionInputs("basis_coefficients_to_fseries") :
        \E res \in {fseries_to_basis_coefficients(Basis, inp.x)} :
           /\ svd_call' = [SvdCall("fseries_to_basis_coefficients", "", inp.len, res.err)
                              EXCEPT !.origin = svd_call.origin,
                                     !.chained = inp.chained]
           /\ svd_ret' = res.ret
           /\ UNCHANGED <<V, Vh, n, s, npy, wfd_vars, rb_vars, train_vars>>

\* ----------------------------------------------- WaveformDataset operations
\* the call of load that ends __init__
Load ==
    /\ wfd_pc = "constructing"
    /\ \E res \in {load(Dataset, h5)} :
          /\ SetDataset(res.w)
          /\ wfd_pc' = IF res.err = "" THEN "ready" ELSE "failed"
          /\ wfd_call' = WfdCall("load", 0, NoRange, res.err)
    /\ UNCHANGED <<h5, wfd_ret, svd_vars, rb_vars, train_vars>>

GetItem ==
    /\ wfd_pc = "ready"
    /\ \E idx \in 0..h5.S :
          \E res \in {getitem(Dataset, idx)} :
             /\ wfd_call' = WfdCall("__getitem__", idx, NoRange, res.err)
             /\ wfd_ret' = res.ret
    /\ UNCHANGED <<h5, wfd_pc, single_precision, wfd_hc, wfd_hp, wfd_Vh, domain,
                   is_truncated, transform, svd_vars, rb_vars, train_vars>>

\* new_range is absent, or a range within the domain's current one
TruncateDatasetDomain ==
    /\ wfd_pc = "ready"
    /\ \E nr \in {NoRange} \cup {NewRange(lo, hi) : lo \in domain.f_min..domain.f_max,
                                                   hi \in domain.f_min..domain.f_max} :
          /\ nr.lo <= nr.hi
          /\ \E res \in {truncate_dataset_domain(Dataset, nr)} :
                /\ SetDataset(res.w)
                /\ wfd_call' = WfdCall("truncate_dataset_domain", 0, nr, res.err)
    /\ wfd_ret' = NoRet
    /\ UNCHANGED <<h5, wfd_pc, svd_vars, rb_vars, train_vars>>

\* ------------------------------ generate_and_save_reduced_basis operations
RbArgs ==
    [N : 1..MaxRows, batch_size : 1..MaxBatch, n_rb : 0..MaxN,
     out_dir : {"None", "out", "missing"}, source : 0..MaxSource, M : 1..MaxDim,
     ifos : {SubSeq(Ifos, 1, 1), Ifos}]

\* the call
RbCall ==
    /\ rb.pc = "idle"
    /\ \E a \in RbArgs :
          \E st \in {rb_begin(rb, transform, a)} :
             /\ rb' = st
             /\ rb_train_data' = IF st.pc = "raised" THEN rb_train_data ELSE rb_buffers(a)
             /\ transform' = TransformAfterStep(st, "T_rb")
    /\ UNCHANGED <<rb_files, wfd_rest, svd_vars, train_vars>>

RbBatch ==
    /\ rb.pc = "collect"
    /\ \E res \in {rb_batch(rb, rb_train_data)} :
          /\ rb' = res.st
          /\ rb_train_data' = res.data
          /\ transform' = TransformAfterStep(res.st, transform)
    /\ UNCHANGED <<rb_files, wfd_rest, svd_vars, train_vars>>

RbGenerate ==
    /\ rb.pc = "generate"
    /\ \E finite \in BOOLEAN :
          /\ (~finite) => HasUnwritten(rb_train_data)
          /\ \E st \in {rb_generate(rb, finite)} :
                /\ rb' = st
                /\ transform' = TransformAfterStep(st, transform)
    /\ UNCHANGED <<rb_train_data, rb_files, wfd_rest, svd_vars, train_vars>>

RbSave ==
    /\ rb.pc = "save"
    /\ \E st \in {rb_save(rb)} :
          /\ rb' = st
          /\ transform' = TransformAfterStep(st, transform)
    /\ rb_files' = IF rb.out_dir = "out" THEN rb_files \cup FileNames(rb.ifos) ELSE rb_files
    /\ UNCHANGED <<rb_train_data, wfd_rest, svd_vars, train_vars>>

RbReturn ==
    /\ rb.pc = "restore"
    /\ transform' = RestoredTransform(rb, transform)
    /\ rb' = [rb EXCEPT !.pc = "returned"]
    /\ UNCHANGED <<rb_train_data, rb_files, wfd_rest, svd_vars, train_vars>>

\* ------------------------------------------------------ train_stages steps
TrainStagesBegin ==
    /\ ts.pc = "called"
    /\ ts' = train_stages_begin(ts, pm)
    /\ UNCHANGED <<pm, svd_vars, wfd_vars, rb_vars>>

EnterStage ==
    /\ ts.pc = "loop"
    /\ ts.n < Len(ts.epochs)
    /\ \E es \in {"None", "valid", "invalid"} :
          \E res \in {enter_stage(ts, pm, es)} :
             /\ pm' = res.pm
             /\ ts' = res.st
    /\ UNCHANGED <<svd_vars, wfd_vars, rb_vars>>

Train ==
    /\ ts.pc = "train"
    /\ \E out \in pm_train(pm.epoch, ts.end_epochs[ts.n + 1], ts.test_only,
                             ts.early_stopping) :
          /\ pm' = [pm EXCEPT !.epoch = out.epoch]
          /\ ts' = after_train(ts, out)
    /\ UNCHANGED <<svd_vars, wfd_vars, rb_vars>>

TrainStagesReturn ==
    /\ \/ ts.pc = "after_loop"
       \/ ts.pc = "loop" /\ ts.n >= Len(ts.epochs)
    /\ ts' = [ts EXCEPT !.pc = "returned", !.ret = ReturnValue(ts, pm)]
    /\ UNCHANGED <<pm, svd_vars, wfd_vars, rb_vars>>

\* ------------------------------------------------------------ specifications
vars == <<svd_vars, wfd_vars, rb_vars, train_vars>>

SvdNext ==
    \/ GenerateBasis
    \/ FromFile
    \/ ToFile
    \/ BasisCoefficientsToFseries
    \/ FseriesToBasisCoefficients

InitSVD == SvdInit /\ WfdIdle /\ RbIdle /\ TrainIdle

SpecSVD == InitSVD /\ [][SvdNext]_vars

WfdNext ==
    \/ Load
    \/ GetItem
    \/ TruncateDatasetDomain

RbNext ==
    \/ RbCall
    \/ RbBatch
    \/ RbGenerate
    \/ RbSave
    \/ RbReturn

SpecRB == RbInit /\ [][RbNext]_vars

InitWFD == WfdInit /\ SvdIdle /\ RbIdle /\ TrainIdle

SpecWFD == InitWFD /\ [][WfdNext]_vars

TrainNext ==
    \/ TrainStagesBegin
    \/ EnterStage
    \/ Train
    \/ TrainStagesReturn

InitTrain == TrainInit /\ SvdIdle /\ WfdIdle /\ RbIdle

SpecTrain == InitTrain /\ [][TrainNext]_vars

\* --------------------------------------------------------- SVDBasis claims

\* C7: after any sequence of SVDBasis operations, V and Vh are both unset, or
\* Vh is exactly the conjugate transpose of V (same values, transposed shape).
C7_VhIsConjTransposeOfV ==
    \/ IsNone(V) /\ IsNone(Vh)
    \/ /\ ~IsNone(V) /\ ~IsNone(Vh)
       /\ Vh.shape = <<V.shape[2], V.shape[1]>>
       /\ \A i \in 1..Vh.shape[1] : \A j \in 1..Vh.shape[2] :
              At(Vh, i, j) = CConj(At(V, j, i))
\* a basis with a non-real entry, reloaded by from_file from a file that
\* to_file wrote (only to_file writes Fortran-ordered files)
C7_Witness ==
    /\ svd_call.op = "from_file" /\ svd_call.err = ""
    /\ npy.exists /\ npy.fortran_order
    /\ \E k \in DOMAIN V.data : V.data[k][2] # 0

\* C8: after a generate_basis call that succeeded, the stored n is the number
\* of rows of Vh and of columns of V.
C8_StoredNIsRetainedRank ==
    (svd_call.op = "generate_basis" /\ svd_call.err = "")
        => /\ n.kind = "int"
           /\ n.v = Vh.shape[1]
           /\ n.v = V.shape[2]

\* C9: a generate_basis call with a method other than 'random' or 'scipy'
\* raises ValueError and leaves V, Vh, n and s as they were.
C9_UnsupportedMethodLeavesBasis ==
    [][(svd_call'.op = "generate_basis" /\ svd_call'.method \notin {"random", "scipy"})
          => (svd_call'.err = "ValueError" /\ UNCHANGED <<V, Vh, n, s>>)]_vars
\* an unsupported method was refused on a basis that had been generated
C9_Witness ==
    /\ svd_call.op = "generate_basis" /\ svd_call.method = "full"
    /\ svd_call.err = "ValueError"
    /\ ~IsNone(V) /\ s.kind = "ndarray"

\* -------------------------------------------------- WaveformDataset claims

C2_SecondTruncateFails ==
    [][(is_truncated /\ wfd_call'.op = "truncate_dataset_domain")
          => (wfd_call'.err # "" /\ UNCHANGED <<wfd_Vh, domain, is_truncated>>)]_vars
\* a second call, with a new range, was refused
C2_Witness ==
    /\ is_truncated
    /\ wfd_call.op = "truncate_dataset_domain" /\ wfd_call.err = "ValueError"
    /\ wfd_call.new_range.given
    /\ wfd_call.new_range.lo > domain.f_min

\* C3: truncate_dataset_domain on a dataset loaded from a file without
\* rb_matrix_V fails with NotImplementedError.
C3_UncompressedTruncateNotImplemented ==
    (wfd_call.op = "truncate_dataset_domain" /\ ~h5.hasV)
        => wfd_call.err = "NotImplementedError"

\* C4: a truncate_dataset_domain call that fails leaves the domain, the
\* compression matrix and the truncation flag as they were.
C4_FailedTruncateLeavesState ==
    [][(wfd_call'.op = "truncate_dataset_domain" /\ wfd_call'.err # "")
          => UNCHANGED <<domain, wfd_Vh, is_truncated>>]_vars

\* C10: load accepts the file exactly when the key set of its
\* waveform_polarizations group is {h_cross, h_plus}.
C10_LoadAcceptsExactKeySet ==
    (wfd_pc \in {"ready", "failed"})
        => ((wfd_pc = "ready") <=> (Range(h5.keys) = {"h_cross", "h_plus"}))

\* ------------------------------------------------ reduced-basis claims

\* the number of leading buffer rows the loop has filled so far
RowsFilled == IF rb.pc = "collect" THEN rb.idx * rb.batch_size ELSE rb.N

\* C5: with a source of at least N samples the loop writes exactly the rows
\* 0..N-1 of each channel's buffer, row i holding source sample i, each row
\* once, never outside the buffer, and it consumes no batch after the one
\* in which row N-1 is written.
C5_CollectsExactlyN ==
    (rb.pc # "idle" /\ rb.source >= rb.N)
        => /\ \A k \in DOMAIN rb_train_data :
                 /\ Len(rb_train_data[k]) = rb.N
                 /\ \A i \in 1..rb.N :
                        rb_train_data[k][i] =
                            IF i <= RowsFilled THEN [val |-> i - 1, writes |-> 1]
                                               ELSE EmptyRow
           /\ rb.lower + rb.n <= rb.N
           /\ rb.consumed = IF rb.pc = "collect" THEN rb.idx
                            ELSE ((rb.N - 1) \div rb.batch_size) + 1
           /\ rb.pc = "raised" => rb.err = "FileNotFoundError"
\* the loop has ended after several batches, the last one cut short, with
\* source samples left over
C5_Witness ==
    /\ rb.pc = "generate"
    /\ rb.source > rb.N /\ rb.N > rb.batch_size /\ rb.N % rb.batch_size # 0
    /\ \A k \in DOMAIN rb_train_data : \A i \in 1..rb.N : rb_train_data[k][i].writes = 1

\* C6: when generate_and_save_reduced_basis has returned, the dataset's
\* transform is the one it held when the function was called.
C6_TransformRestoredOnReturn ==
    (rb.pc = "returned") => (transform = rb.transform_at_call)
\* the function returned, after saving, for a dataset that had a transform
C6_Witness ==
    /\ rb.pc = "returned"
    /\ rb.transform_at_call = "T_user"
    /\ rb.out_dir = "out" /\ rb.V_paths # <<>>

\* ---------------------------------------------------------------- C11
\* the round trip fseries_to_basis_coefficients then
\* basis_coefficients_to_fseries has completed on a basis built by 'scipy'
RoundTripDone ==
    /\ svd_call.op = "basis_coefficients_to_fseries"
    /\ svd_call.chained
    /\ svd_call.err = ""
    /\ svd_call.origin = "scipy"

\* claim C11: on a basis generated by 'scipy', projecting a frequency series
\* onto the basis and expanding the coefficients again returns the series
\* unchanged when the basis keeps n = D vectors of a full-rank training
\* matrix, and returns a different series (one that has lost the discarded
\* components) when it keeps fewer
C11_RoundTripIdentityAtFullBasis ==
    RoundTripDone =>
        IF n.v = svd_call.len
        THEN /\ svd_ret.shape = Vector(svd_call.len).shape
             /\ svd_ret.data = Vector(svd_call.len).data
        ELSE /\ n.v < svd_call.len
             /\ svd_ret.shape = Vector(svd_call.len).shape
             /\ svd_ret.data # Vector(svd_call.len).data

\* a round trip through a full basis of MaxDim vectors that is not diagonal
C11_Witness ==
    /\ RoundTripDone
    /\ svd_call.len = MaxDim
    /\ n.v = MaxDim
    /\ svd_ret.data = Vector(MaxDim).data
    /\ \E i \in 1..MaxDim : At(V, i, i) = CZero

\* a round trip through a basis that keeps fewer vectors than the dimension
C11_WitnessLossy ==
    /\ RoundTripDone
    /\ n.v < svd_call.len
    /\ svd_ret.data # Vector(svd_call.len).data

\* ---------------------------------------------------------------- C12
\* claim C12: after a generate_basis call that returned, the stored sequence
\* of singular values s has as many entries as the stored n
C12_SingularValuesHaveLengthN ==
    (svd_call.op = "generate_basis" /\ svd_call.err = "")
        => /\ s.kind = "ndarray"
           /\ n.kind = "int"
           /\ Len(s.data) = n.v

\* ---------------------------------------------------------------- C14
\* claim C14: a dataset loaded from a file without rb_matrix_V has no
\* compression matrix (its _Vh is None), and __getitem__ of a valid index
\* returns the stored h_plus and h_cross rows of that sample as they are
C14_UncompressedGetItemReturnsStoredRows ==
    (wfd_pc = "ready" /\ ~h5.hasV)
        => /\ IsNone(wfd_Vh)
           /\ (wfd_call.op = "__getitem__" /\ wfd_call.idx < h5.S)
                 => /\ wfd_call.err = ""
                    /\ wfd_ret.h_plus = Row(wfd_hp, wfd_call.idx + 1)
                    /\ wfd_ret.h_cross = Row(wfd_hc, wfd_call.idx + 1)
                    /\ wfd_ret.h_plus.data = Row(FileHPlus(h5), wfd_call.idx + 1).data
                    /\ wfd_ret.h_cross.data = Row(FileHCross(h5), wfd_call.idx + 1).data

\* ---------------------------------------------------------------- C15
\* claim C15: when the source holds fewer than N samples (and at least the
\* one that is probed), the collecting loop ends without an error once the
\* source is exhausted, for every batch size: each buffer holds the source
\* samples in its first rows, written once, the rows beyond them were never
\* written, and generate_basis is reached
C15_ExhaustedSourceEndsLoopSilently ==
    (rb.source >= 1 /\ rb.source < rb.N /\ rb.pc \notin {"idle", "collect"})
        => /\ rb.raised_at # "collect"
           /\ \A k \in DOMAIN rb_train_data : \A i \in 1..rb.N :
                  rb_train_data[k][i] =
                      IF i <= rb.source THEN [val |-> i - 1, writes |-> 1]
                                        ELSE EmptyRow

\* ---------------------------------------------------------------- C16
\* claim C16: when generate_and_save_reduced_basis raises after the swap of
\* the transform (probing sample 0, collecting, generating a basis, saving),
\* the dataset is left with the basis-training transform, not the original
\* one, and the function never reaches its restoring assignment
C16_RaiseLeavesTrainingTransform ==
    (rb.pc = "raised")
        => /\ rb.raised_at \in {"probe", "collect", "generate", "save"}
           /\ transform = "T_rb"
           /\ transform # rb.wfd_transform_original
           /\ ~ENABLED RbReturn

\* the function raised while saving, for a dataset that had a transform
C16_Witness ==
    /\ rb.pc = "raised"
    /\ rb.raised_at = "save"
    /\ rb.wfd_transform_original = "T_user"
    /\ transform = "T_rb"

\* ----------------------------------------------------- train_stages claims
\* the sum of the epochs of all configured stages
TotalEpochs == SumUpTo(ts.epochs, Len(ts.epochs))

FirstOpenStage(epochs, epoch) ==
    CHOOSE k \in 0..Len(epochs) :
        /\ \A j \in 1..k : SumUpTo(epochs, j) <= epoch
        /\ k < Len(epochs) => SumUpTo(epochs, k + 1) > epoch

\* claim C17: the stages are entered in increasing order, one after the
\* other, from the first stage whose end epoch exceeds the pm.epoch of the
\* call; a stage entered when none of its own epochs is trained yet gets an
\* optimizer and scheduler of its own (resume = False), and a stage is
\* resumed only when pm.epoch lies strictly inside its range of epochs
C17_StagesInOrderFreshOptimizerAtStart ==
    (ts.entered # <<>>)
        => /\ ts.entered[1].stage = FirstOpenStage(ts.epochs, ts.entered[1].epoch)
           /\ \A i \in 2..Len(ts.entered) :
                  ts.entered[i].stage = ts.entered[i - 1].stage + 1
           /\ \A i \in 1..Len(ts.entered) :
                  LET en == ts.entered[i]
                      start == SumUpTo(ts.epochs, en.stage)
                      end == SumUpTo(ts.epochs, en.stage + 1)
                  IN /\ (en.epoch <= start)
                          => (~en.resume /\ en.optimizer = en.stage)
                     /\ en.resume => (start < en.epoch /\ en.epoch < end)

====
